---- MODULE Spec2Model ----
(***************************************************************************)
(* LibreCAL-GUI, CalDevice (Software/LibreCAL-GUI/caldevice.cpp): the      *)
(* coefficient acquisition run, the session's coefficient-set collection,  *)
(* and CoefficientSet::getThrough.                                         *)
(*                                                                         *)
(* One action is one round trip on the USB channel (usb->Query) together   *)
(* with the code that runs up to the next round trip, or one access to the *)
(* shared collection coeffSets.  The device is the environment: each       *)
(* response is drawn from a small set.                                     *)
(***************************************************************************)
EXTENDS Integers, Sequences, FiniteSets, TLC

VARIABLES
    numPorts,        \* CalDevice::numPorts, set by the constructor
    coeffSets,       \* CalDevice::coeffSets, the session's collection
    pc,              \* position of the acquisition thread
    listResp,        \* resp: the response to :COEFF:LIST?
    coeffList,       \* coeffList = resp.split(",")
    totalPoints,     \* unsigned long totalPoints (see ULong below)
    readPoints,      \* unsigned long readPoints
    lastPercentage,  \* int lastPercentage
    nameIdx,         \* position of "for(auto name : coeffList)" (1-based)
    stepIdx,         \* position inside the per-port loops of the current pass
    set,             \* CoefficientSet set, under construction
    c,               \* Coefficient *c of the running createCoefficient call
    points,          \* int points of the running createCoefficient call
    ptIdx,           \* inner loop variable i of createCoefficient
    nextAddr,        \* the next address operator new hands out
    emitted,         \* signals emitted so far by the current run, in order
    sent,            \* queries sent on the channel by the current run, in order
    runs,            \* number of updateCoefficientSets calls so far
    prevNames,       \* history: the names of the sets coeffSets held when the run was called
    observed,        \* what the last getCoefficientSets call of a reader returned
    lookup,          \* the last getThrough call: arguments and outcome
    malformed,       \* history: a :COEFF:NUM? response of the run was no number
    pc2,             \* position of the thread of a call made while a run is in flight
    standard,        \* the last getStandard call: the response and what it returned
    modResult,       \* outcome of the last hasModifiedCoefficients call
    firmware,        \* CalDevice::firmware
    usb              \* CalDevice::usb: the transport object, the deletes of it, and
                     \* history: what it answered to *IDN? and :PORTS?

vars == <<numPorts, coeffSets, pc, listResp, coeffList, totalPoints, readPoints,
          lastPercentage, nameIdx, stepIdx, set, c, points, ptIdx, nextAddr,
          emitted, sent, runs, prevNames, observed, lookup, malformed, pc2,
          standard, modResult, firmware, usb>>

\* the state of the callers of the session other than the acquisition
callerVars == <<pc2, standard, modResult, firmware, usb>>

(***************************************************************************)
(* Bounds of the model.                                                    *)
(***************************************************************************)
\* largest port count of the sessions of Spec, SessSpec and ReadSpec
MaxPorts == 1
\* largest port count of the sessions of AddrSpec
MaxAddrPorts == 8
\* the device reports at most this many points in a pre-scan (Spec)
MaxTotal == 10
\* the device serves at most this many points in a download pass (Spec)
MaxRead == 10
\* the same two caps for the sparse device of SessSpec and ReadSpec
MaxSparse == 1
\* updateCoefficientSets is called at most this often in SessSpec and ReadSpec
MaxRuns == 2
\* largest port count of the sessions of SetSpec
MaxSetPorts == 3
\* largest port count of the sessions of ModSpec
MaxModPorts == 2

(***************************************************************************)
(* Text.  A response field is modelled by what toInt()/toDouble() make of  *)
(* it: ok is FALSE for text that does not parse, val is the number.        *)
(***************************************************************************)
Num(n) == [ok |-> TRUE, val |-> n]
Unparsable == [ok |-> FALSE, val |-> 0]

\* QString::toInt() without an ok pointer: 0 when the text does not parse
toInt(field) == IF field.ok THEN field.val ELSE 0

\* QString::toDouble(): 0.0 when the text does not parse
toDouble(field) == IF field.ok THEN field.val ELSE 0

\* QString::number(n) for n >= 0: the decimal digits
RECURSIVE number(_)
number(n) == IF n < 10 THEN <<n>> ELSE number(n \div 10) \o <<n % 10>>

\* a test every listing passes
startsWithAnything(resp) == TRUE

\* resp.startsWith("FACTORY"): a prefix test on the whole response text.  The
\* response is kept as its list of comma separated names; the names below are
\* the ones of the model that begin with the seven letters.
startsWithFACTORY(resp) == resp[1] \in {"FACTORY", "FACTORY_OLD"}

\* a split that keeps the first name only
splitFirstOnly(resp) == <<resp[1]>>

\* resp.split(","): the names of the response
split(resp) == resp

(***************************************************************************)
(* The Standard vocabulary: the enumeration and its string codec.          *)
(***************************************************************************)
Open == 0
Short == 1
Load == 2
Through == 3
None == 4

\* an encoding with a short name for the through
StandardToStringThru(s) ==
    CASE s = Open -> "OPEN"
      [] s = Short -> "SHORT"
      [] s = Load -> "LOAD"
      [] s = Through -> "THRU"
      [] s = None -> "NONE"

\* CalDevice::StandardToString: the switch has no default; it is used for
\* the five values only
StandardToString(s) ==
    CASE s = Open -> "OPEN"
      [] s = Short -> "SHORT"
      [] s = Load -> "LOAD"
      [] s = Through -> "THROUGH"
      [] s = None -> "NONE"

\* the loop of StandardFromString from i on: for(;i<=(int) Standard::None;i++)
RECURSIVE StandardFromStringLoop(_, _)
StandardFromStringLoop(str, i) ==
    IF i > None THEN None
    ELSE IF str = StandardToString(i) THEN i
    ELSE StandardFromStringLoop(str, i + 1)

\* CalDevice::StandardFromString
StandardFromString(str) == StandardFromStringLoop(str, 0)

(***************************************************************************)
(* Parameter names and the order of the per-port loops.                    *)
(***************************************************************************)
\* "P"+QString::number(i)+"_OPEN" and so on: kind and the digits after "P"
ParamName(kind, i) == [kind |-> kind, digits |-> number(i)]
ThroughName(i, j) == [kind |-> "THROUGH", digits |-> number(i) \o number(j)]

\* paramName.endsWith("THROUGH")
endsWithTHROUGH(paramName) == paramName.kind = "THROUGH"

\* pre-scan: for(int j=i+1;j<=numPorts;j++) of the pre-scan loop
RECURSIVE PrescanThroughs(_, _, _)
PrescanThroughs(i, j, P) ==
    IF j > P THEN <<>>
    ELSE <<ThroughName(i, j)>> \o PrescanThroughs(i, j + 1, P)

\* pre-scan: for(int i=1;i<=numPorts;i++), the parameters queried in order
RECURSIVE PrescanParams(_, _)
PrescanParams(i, P) ==
    IF i > P THEN <<>>
    ELSE <<ParamName("OPEN", i), ParamName("SHORT", i), ParamName("LOAD", i)>>
         \o PrescanThroughs(i, i + 1, P) \o PrescanParams(i + 1, P)

\* a write path that fills the throughs of a port from the largest partner down
RECURSIVE DownloadThroughsDescending(_, _, _)
DownloadThroughsDescending(i, j, P) ==
    IF j > P THEN <<>>
    ELSE DownloadThroughsDescending(i, j + 1, P)
         \o <<[dest |-> "throughs", param |-> ThroughName(i, j)]>>

\* download: for(int j=i+1;j<=numPorts;j++) set.throughs.push_back(...)
RECURSIVE DownloadThroughs(_, _, _)
DownloadThroughs(i, j, P) ==
    IF j > P THEN <<>>
    ELSE <<[dest |-> "throughs", param |-> ThroughName(i, j)]>>
         \o DownloadThroughs(i, j + 1, P)

\* download: for(int i=1;i<=numPorts;i++), the createCoefficient calls in
\* order, each with the vector its result is pushed to
RECURSIVE DownloadSteps(_, _)
DownloadSteps(i, P) ==
    IF i > P THEN <<>>
    ELSE <<[dest |-> "opens", param |-> ParamName("OPEN", i)],
           [dest |-> "shorts", param |-> ParamName("SHORT", i)],
           [dest |-> "loads", param |-> ParamName("LOAD", i)]>>
         \o DownloadThroughs(i, i + 1, P) \o DownloadSteps(i + 1, P)

(***************************************************************************)
(* Data.                                                                   *)
(***************************************************************************)
\* values[0].toDouble() * 1e9
GHz == 1000000000

\* nullptr
NullPtr == 0

\* the address operator new hands out first
FirstAddr == 1

\* CoefficientSet set; set.name = name; set.ports = numPorts;
NewSet(name, ports) ==
    [name |-> name, ports |-> ports, opens |-> <<>>, shorts |-> <<>>,
     loads |-> <<>>, throughs |-> <<>>]

\* new CoefficientSet::Coefficient() with c->t = Touchstone(2) or Touchstone(1).
\* addr is the pointer; from is history: the set and parameter name the
\* createCoefficient call that built it was given.
NewCoefficient(addr, setName, paramName) ==
    [addr |-> addr,
     ports |-> IF endsWithTHROUGH(paramName) THEN 2 ELSE 1,
     datapoints |-> <<>>,
     modified |-> FALSE,
     from |-> [set |-> setName, param |-> paramName]]

\* for(int j = 0;j<(values.size()-1)/2;j++) p.S.push_back(complex(real, imag))
RECURSIVE Complexes(_, _)
Complexes(values, j) ==
    IF j >= (Len(values) - 1) \div 2 THEN <<>>
    ELSE <<[re |-> toDouble(values[2 + j * 2]), im |-> toDouble(values[3 + j * 2])]>>
         \o Complexes(values, j + 1)

\* a point stored in the order received
KeepWireOrder(S) == S

\* swap(p.S[1], p.S[2]) when p.S.size() == 4
SwapS21S12(S) == IF Len(S) = 4 THEN <<S[1], S[3], S[2], S[4]>> ELSE S

\* the Datapoint p built from pString.split(",")
ParsePoint(values) ==
    [frequency |-> toDouble(values[1]) * GHz,
     S |-> SwapS21S12(Complexes(values, 0))]

\* c->t.AddDatapoint(p): the trace with p appended
AddDatapoint(coef, p) == [coef EXCEPT !.datapoints = Append(@, p)]

\* a write path that leaves out a trace without points
PushCoefficientSkipEmpty(s, dest, coef) ==
    IF coef.datapoints = <<>> THEN s
    ELSE CASE dest = "opens" -> [s EXCEPT !.opens = Append(@, coef)]
           [] dest = "shorts" -> [s EXCEPT !.shorts = Append(@, coef)]
           [] dest = "loads" -> [s EXCEPT !.loads = Append(@, coef)]
           [] dest = "throughs" -> [s EXCEPT !.throughs = Append(@, coef)]

\* set.opens.push_back(...), set.shorts..., set.loads..., set.throughs...
PushCoefficient(s, dest, coef) ==
    CASE dest = "opens" -> [s EXCEPT !.opens = Append(@, coef)]
      [] dest = "shorts" -> [s EXCEPT !.shorts = Append(@, coef)]
      [] dest = "loads" -> [s EXCEPT !.loads = Append(@, coef)]
      [] dest = "throughs" -> [s EXCEPT !.throughs = Append(@, coef)]

(***************************************************************************)
(* unsigned long arithmetic.  totalPoints is kept as the representative    *)
(* v of the 64 bit value v mod 2^64 with the smallest magnitude: adding a  *)
(* negative int (sign extended to unsigned long) gives 2^64 + v for v < 0. *)
(* Every dividend of the model is far below 2^64 - MaxTotal.               *)
(***************************************************************************)
\* totalPoints += <int>
ULongAdd(v, n) == v + n

\* the values "readPoints * 100 / totalPoints" converted to int can take.
\* Division by zero is undefined: the machine traps (x86: SIGFPE ends the
\* process) or the division yields a value (0 on AArch64, all ones, that is
\* -1 as int, on RISC-V); nothing fixes the value from one evaluation to the
\* next.
Trap == [trap |-> TRUE, val |-> 0]
Value(v) == [trap |-> FALSE, val |-> v]
DivZeroValues == {-1, 0}

\* a percentage that divides before it multiplies
PercentageDivideFirst(read, total) ==
    IF total = 0 THEN {Trap} \cup {Value(v) : v \in DivZeroValues}
    ELSE IF total < 0 THEN {Value(0)}
    ELSE {Value((read \div total) * 100)}

Percentage(read, total) ==
    IF total = 0 THEN {Trap} \cup {Value(v) : v \in DivZeroValues}
    ELSE IF total < 0 THEN {Value(0)}
    ELSE {Value((read * 100) \div total)}

(***************************************************************************)
(* Signals and queries.                                                    *)
(***************************************************************************)
\* emit updateCoefficientsPercent(p)
Percent(p) == [sig |-> "updateCoefficientsPercent", val |-> p]
\* emit updateCoefficientsDone()
Done == [sig |-> "updateCoefficientsDone", val |-> 0]

NoName == [kind |-> "", digits |-> <<>>]
\* usb->Query(":COEFF:LIST?")
ListQuery == [cmd |-> ":COEFF:LIST?", set |-> "", param |-> NoName, index |-> 0]
\* usb->Query(":COEFF:NUM? "+name+" "+param)
NumQuery(name, param) == [cmd |-> ":COEFF:NUM?", set |-> name, param |-> param, index |-> 0]
\* a point fetch that counts the points from 1
GetQueryFromOne(name, param, i) ==
    [cmd |-> ":COEFF:GET?", set |-> name, param |-> param, index |-> i + 1]

\* usb->Query(":COEFF:GET? "+setName+" "+paramName+" "+QString::number(i))
GetQuery(name, param, i) == [cmd |-> ":COEFF:GET?", set |-> name, param |-> param, index |-> i]

(***************************************************************************)
(* The device: the responses it may give.                                  *)
(***************************************************************************)
ListResponses == {<<"FACTORY">>, <<"FACTORY", "USER">>, <<"NOTREADY">>}
\* the listings of a device that holds one set
SingleListResponses == {<<"FACTORY">>, <<"NOTREADY">>}
\* point counts: text that is no number, a negative number, and counts
NumResponses == {Unparsable, Num(-1), Num(0), Num(1), Num(5)}
SparseNumResponses == {Unparsable, Num(0), Num(1)}
\* the count of a device that holds one point for every parameter
OnePointResponses == {Num(1)}
\* one point of a reflection standard: frequency, one complex value
ReflectRecord == <<Num(1), Num(2), Num(3)>>
\* one point of a through: frequency, S11, S21, S12, S22
ThroughRecord == <<Num(1), Num(11), Num(12), Num(21), Num(22),
                   Num(31), Num(32), Num(41), Num(42)>>
GetResponses(param) ==
    IF endsWithTHROUGH(param) THEN {ThroughRecord} ELSE {ReflectRecord}

(***************************************************************************)
(* State after construction of the session: no run yet.                    *)
(***************************************************************************)
NoSet == NewSet("", 0)
NoCoefficient == NewCoefficient(NullPtr, "", NoName)
NoObservation == [valid |-> FALSE, inFlight |-> FALSE, torn |-> FALSE, sets |-> <<>>]
\* no getStandard call and no hasModifiedCoefficients call was made yet
NoStandard == [valid |-> FALSE, response |-> "", value |-> None]
NoResult == [valid |-> FALSE, returned |-> "", modified |-> FALSE]
NoLookup == [valid |-> FALSE, set |-> 0, port1 |-> 0, port2 |-> 0, index |-> -1,
             oob |-> FALSE, found |-> FALSE, coef |-> NoCoefficient]

(***************************************************************************)
(* CalDevice::CalDevice and CalDevice::~CalDevice.                         *)
(***************************************************************************)
\* "LibreCAL_", a text being the sequence of its characters
ProductTag == <<"L", "i", "b", "r", "e", "C", "A", "L", "_">>

\* a prefix test that leaves out the last character of the prefix
startsWithAllButLast(str, prefix) ==
    /\ Len(str) >= Len(prefix) - 1
    /\ SubSeq(str, 1, Len(prefix) - 1) = SubSeq(prefix, 1, Len(prefix) - 1)

\* QString::startsWith
startsWith(str, prefix) ==
    /\ Len(str) >= Len(prefix)
    /\ SubSeq(str, 1, Len(prefix)) = prefix

\* what a device may answer to *IDN?: LibreCAL_1, LibreCAL_, LibreCAL-1,
\* LibreVNA_1, librecal_1, LibreCAL and the empty text
IdnResponses ==
    {ProductTag \o <<"1">>,
     ProductTag,
     <<"L", "i", "b", "r", "e", "C", "A", "L", "-", "1">>,
     <<"L", "i", "b", "r", "e", "V", "N", "A", "_", "1">>,
     <<"l", "i", "b", "r", "e", "c", "a", "l", "_", "1">>,
     <<"L", "i", "b", "r", "e", "C", "A", "L">>,
     <<>>}
FirmwareResponses == {"1.0.0", ""}
\* what it may answer to :PORTS?: a port count, or text that is no integer
PortsResponses(maxPorts) == {Unparsable} \cup {Num(n) : n \in 0..maxPorts}

IdnQuery == [cmd |-> "*IDN?", set |-> "", param |-> NoName, index |-> 0]
FirmwareQuery == [cmd |-> ":FIRMWARE?", set |-> "", param |-> NoName, index |-> 0]
PortsQuery == [cmd |-> ":PORTS?", set |-> "", param |-> NoName, index |-> 0]

\* the session after CalDevice::CalDevice on a device with ports ports
Constructed(ports) ==
    /\ numPorts = ports
    /\ coeffSets = <<>>
    /\ pc = "idle"
    /\ listResp = <<>>
    /\ coeffList = <<>>
    /\ totalPoints = 0
    /\ readPoints = 0
    /\ lastPercentage = 0
    /\ nameIdx = 0
    /\ stepIdx = 0
    /\ set = NoSet
    /\ c = NoCoefficient
    /\ points = 0
    /\ ptIdx = 0
    /\ nextAddr = FirstAddr
    /\ emitted = <<>>
    /\ sent = <<>>
    /\ runs = 0
    /\ prevNames = <<>>
    /\ observed = NoObservation
    /\ lookup = NoLookup
    /\ malformed = FALSE
    /\ pc2 = "none"
    /\ standard = NoStandard
    /\ modResult = NoResult
    /\ firmware = "1.0.0"
    /\ usb = [live |-> TRUE, deletes |-> 0, idn |-> ProductTag \o <<"1">>,
              ports |-> Num(ports)]

Init == \E ports \in 0..MaxPorts : Constructed(ports)

InitAddr == \E ports \in 0..MaxAddrPorts : Constructed(ports)

InitSet == \E ports \in 0..MaxSetPorts : Constructed(ports)

(***************************************************************************)
(* updateCoefficientSets: clears the collection and starts the thread.     *)
(***************************************************************************)
\* the names of the sets of a collection, in order
Names(sets) == [i \in 1..Len(sets) |-> sets[i].name]

\* a call that leaves the collection as it is
NotCleared(sets) == sets

\* coeffSets.clear()
Cleared(sets) == <<>>

updateCoefficientSets ==
    /\ coeffSets' = Cleared(coeffSets)
    /\ pc' = "list"
    /\ prevNames' = Names(coeffSets)
    /\ runs' = runs + 1
    /\ listResp' = <<>>
    /\ coeffList' = <<>>
    /\ totalPoints' = 0
    /\ readPoints' = 0
    /\ lastPercentage' = 0
    /\ nameIdx' = 0
    /\ stepIdx' = 0
    /\ set' = NoSet
    /\ c' = NoCoefficient
    /\ points' = 0
    /\ ptIdx' = 0
    /\ emitted' = <<>>
    /\ sent' = <<>>
    /\ observed' = NoObservation
    /\ lookup' = NoLookup
    /\ UNCHANGED <<numPorts, nextAddr>>
    /\ malformed' = FALSE
    /\ UNCHANGED callerVars

\* the caller of the model calls only while no run is in flight
NoRunInFlight == pc \in {"idle", "finished"}

Call(maxRuns) ==
    /\ NoRunInFlight
    /\ runs < maxRuns
    /\ updateCoefficientSets

(***************************************************************************)
(* updateCoefficientSetsThread.                                            *)
(***************************************************************************)
\* the position at which the download pass starts the set of coeffList[n]:
\* with no port there is no createCoefficient call and the set is pushed
DownloadPc == IF DownloadSteps(1, numPorts) = <<>> THEN "push" ELSE "dlnum"

\* unsigned long readPoints = 0; int lastPercentage = 0; and the first set
BeginDownload(names) ==
    /\ readPoints' = 0
    /\ lastPercentage' = 0
    /\ nameIdx' = 1
    /\ stepIdx' = 1
    /\ set' = NewSet(names[1], numPorts)
    /\ pc' = DownloadPc

\* QString resp = usb->Query(":COEFF:LIST?"), the test of the response, and
\* the start of the pre-scan
QueryList(lists) ==
    /\ pc = "list"
    /\ \E resp \in lists :
        /\ listResp' = resp
        /\ sent' = Append(sent, ListQuery)
        /\ IF ~startsWithFACTORY(resp)
           THEN /\ emitted' = Append(emitted, Done)
                /\ pc' = "finished"
                /\ UNCHANGED <<coeffList, totalPoints, readPoints, lastPercentage,
                               nameIdx, stepIdx, set>>
           ELSE /\ coeffList' = split(resp)
                /\ totalPoints' = 0
                /\ emitted' = emitted
                /\ IF PrescanParams(1, numPorts) = <<>>
                   THEN BeginDownload(split(resp))
                   ELSE /\ pc' = "prescan"
                        /\ nameIdx' = 1
                        /\ stepIdx' = 1
                        /\ UNCHANGED <<readPoints, lastPercentage, set>>
    /\ UNCHANGED <<numPorts, coeffSets, c, points, ptIdx, nextAddr, runs,
                   prevNames, observed, lookup>>
    /\ UNCHANGED <<malformed, callerVars>>

\* one totalPoints += usb->Query(":COEFF:NUM? ...").toInt() of the pre-scan;
\* the device keeps the total within -1..cap
PrescanNum(nums, cap) ==
    /\ pc = "prescan"
    /\ \E resp \in nums :
        LET params == PrescanParams(1, numPorts)
            total == ULongAdd(totalPoints, toInt(resp))
        IN  /\ total \in -1..cap
            /\ totalPoints' = total
            /\ sent' = Append(sent, NumQuery(coeffList[nameIdx], params[stepIdx]))
            /\ malformed' = (malformed \/ ~resp.ok)
            /\ IF stepIdx < Len(params)
               THEN /\ stepIdx' = stepIdx + 1
                    /\ UNCHANGED <<pc, nameIdx, readPoints, lastPercentage, set>>
               ELSE IF nameIdx < Len(coeffList)
               THEN /\ nameIdx' = nameIdx + 1
                    /\ stepIdx' = 1
                    /\ UNCHANGED <<pc, readPoints, lastPercentage, set>>
               ELSE BeginDownload(coeffList)
    /\ UNCHANGED <<numPorts, coeffSets, listResp, coeffList, c, points, ptIdx,
                   nextAddr, emitted, runs, prevNames, observed, lookup>>
    /\ UNCHANGED callerVars

\* return c; the push_back of the result, and the next step of the per-port
\* loops of the set
FinishCoefficient(coef) ==
    LET steps == DownloadSteps(1, numPorts)
    IN  /\ set' = PushCoefficient(set, steps[stepIdx].dest, coef)
        /\ c' = coef
        /\ IF stepIdx < Len(steps)
           THEN /\ stepIdx' = stepIdx + 1
                /\ pc' = "dlnum"
           ELSE /\ stepIdx' = stepIdx
                /\ pc' = "push"

\* createCoefficient up to its loop: int points = usb->Query(":COEFF:NUM? ...")
\* .toInt() and the new Coefficient; the device serves at most cap points a run
DownloadNum(nums, cap) ==
    /\ pc = "dlnum"
    /\ \E resp \in nums :
        LET step == DownloadSteps(1, numPorts)[stepIdx]
            n == toInt(resp)
            coef == NewCoefficient(nextAddr, set.name, step.param)
        IN  /\ n > 0 => readPoints + n <= cap
            /\ points' = n
            /\ nextAddr' = nextAddr + 1
            /\ sent' = Append(sent, NumQuery(set.name, step.param))
            /\ malformed' = (malformed \/ ~resp.ok)
            /\ ptIdx' = 0
            /\ IF 0 < n
               THEN /\ c' = coef
                    /\ pc' = "dlget"
                    /\ UNCHANGED <<set, stepIdx>>
               ELSE FinishCoefficient(coef)
    /\ UNCHANGED <<numPorts, coeffSets, listResp, coeffList, totalPoints,
                   readPoints, lastPercentage, nameIdx, emitted, runs, prevNames,
                   observed, lookup>>
    /\ UNCHANGED callerVars

\* one iteration of the loop of createCoefficient: the point fetch, the
\* datapoint, readPoints++, the percentage and its signal
DownloadGet ==
    /\ pc = "dlget"
    /\ \E values \in GetResponses(c.from.param) :
       \E new \in Percentage(readPoints + 1, totalPoints) :
        LET coef == AddDatapoint(c, ParsePoint(values))
        IN  /\ sent' = Append(sent, GetQuery(c.from.set, c.from.param, ptIdx))
            /\ readPoints' = readPoints + 1
            /\ IF new.trap
               THEN /\ pc' = "crashed"
                    /\ c' = coef
                    /\ UNCHANGED <<lastPercentage, emitted, ptIdx, set, stepIdx>>
               ELSE /\ IF new.val # lastPercentage
                       THEN /\ lastPercentage' = new.val
                            /\ emitted' = Append(emitted, Percent(new.val))
                       ELSE UNCHANGED <<lastPercentage, emitted>>
                    /\ ptIdx' = ptIdx + 1
                    /\ IF ptIdx + 1 < points
                       THEN /\ c' = coef
                            /\ UNCHANGED <<pc, set, stepIdx>>
                       ELSE FinishCoefficient(coef)
    /\ UNCHANGED <<numPorts, coeffSets, listResp, coeffList, totalPoints,
                   nameIdx, points, nextAddr, runs, prevNames, observed, lookup>>
    /\ UNCHANGED <<malformed, callerVars>>

\* coeffSets.push_back(set) and the next name of coeffList
PushSet ==
    /\ pc = "push"
    /\ coeffSets' = Append(coeffSets, set)
    /\ IF nameIdx < Len(coeffList)
       THEN /\ nameIdx' = nameIdx + 1
            /\ stepIdx' = 1
            /\ set' = NewSet(coeffList[nameIdx + 1], numPorts)
            /\ pc' = DownloadPc
       ELSE /\ pc' = "emitdone"
            /\ UNCHANGED <<nameIdx, stepIdx, set>>
    /\ UNCHANGED <<numPorts, listResp, coeffList, totalPoints, readPoints,
                   lastPercentage, c, points, ptIdx, nextAddr, emitted, sent,
                   runs, prevNames, observed, lookup>>
    /\ UNCHANGED <<malformed, callerVars>>

\* emit updateCoefficientsDone() at the end of the thread
EmitDone ==
    /\ pc = "emitdone"
    /\ emitted' = Append(emitted, Done)
    /\ pc' = "finished"
    /\ UNCHANGED <<numPorts, coeffSets, listResp, coeffList, totalPoints,
                   readPoints, lastPercentage, nameIdx, stepIdx, set, c, points,
                   ptIdx, nextAddr, sent, runs, prevNames, observed, lookup>>
    /\ UNCHANGED <<malformed, callerVars>>

(***************************************************************************)
(* Readers of the session.                                                 *)
(***************************************************************************)
\* getCoefficientSets: return coeffSets, a copy of the vector.  The thread
\* writes the vector without a lock: a copy taken while the thread is at its
\* push_back races with it, and what such a copy holds is not defined (torn).
\* The model keeps one observation a run.
getCoefficientSets ==
    /\ pc # "crashed"
    /\ ~observed.valid
    /\ \E torn \in (IF pc = "push" THEN {FALSE, TRUE} ELSE {FALSE}) :
        observed' = [valid |-> TRUE,
                     inFlight |-> ~NoRunInFlight,
                     torn |-> torn,
                     sets |-> IF torn THEN <<>> ELSE coeffSets]
    /\ UNCHANGED <<numPorts, coeffSets, pc, listResp, coeffList, totalPoints,
                   readPoints, lastPercentage, nameIdx, stepIdx, set, c, points,
                   ptIdx, nextAddr, emitted, sent, runs, prevNames, lookup>>
    /\ UNCHANGED <<malformed, callerVars>>

\* a loop that adds one too few for each port below port1
RECURSIVE ThroughIndexShort(_, _, _)
ThroughIndexShort(index, port1, ports) ==
    IF port1 > 1 THEN ThroughIndexShort(index + ports - port1, port1 - 1, ports)
    ELSE index

\* while(port1 > 1) { index += ports - port1 + 1; port1--; }
RECURSIVE ThroughIndex(_, _, _)
ThroughIndex(index, port1, ports) ==
    IF port1 > 1 THEN ThroughIndex(index + ports - port1 + 1, port1 - 1, ports)
    ELSE index

\* if(port1 > ports || port2 > ports || port1 >= port2) return nullptr;
RejectsPair(port1, port2, ports) ==
    port1 > ports \/ port2 > ports \/ port1 >= port2

\* what a read of a vector element outside the vector can yield: a null
\* pointer, or a pointer to no Coefficient of the set
WildCoefficient == NewCoefficient(-1, "", NoName)
OutOfBounds(index) ==
    {[index |-> index, oob |-> TRUE, found |-> FALSE, coef |-> NoCoefficient],
     [index |-> index, oob |-> TRUE, found |-> TRUE, coef |-> WildCoefficient]}

\* CoefficientSet::getThrough(port1, port2): the outcomes of the call.
\* found is FALSE for nullptr; oob is TRUE when throughs[index] is read
\* outside the vector; index is the index computed (-1 when none is).
getThrough(s, port1, port2) ==
    IF RejectsPair(port1, port2, s.ports)
    THEN {[index |-> -1, oob |-> FALSE, found |-> FALSE, coef |-> NoCoefficient]}
    ELSE LET index == ThroughIndex(port2 - port1 - 1, port1, s.ports)
         IN  IF index \in 0..(Len(s.throughs) - 1)
             THEN {[index |-> index, oob |-> FALSE, found |-> TRUE,
                    coef |-> s.throughs[index + 1]]}
             ELSE OutOfBounds(index)

\* a caller looks a through up in a set of the finished run; the model keeps
\* one lookup a run
LookupThrough ==
    /\ pc = "finished"
    /\ ~lookup.valid
    /\ \E n \in 1..Len(coeffSets) :
       \E port1, port2 \in -1..(numPorts + 1) :
       \E out \in getThrough(coeffSets[n], port1, port2) :
        lookup' = [valid |-> TRUE, set |-> n, port1 |-> port1, port2 |-> port2,
                   index |-> out.index, oob |-> out.oob, found |-> out.found,
                   coef |-> out.coef]
    /\ UNCHANGED <<numPorts, coeffSets, pc, listResp, coeffList, totalPoints,
                   readPoints, lastPercentage, nameIdx, stepIdx, set, c, points,
                   ptIdx, nextAddr, emitted, sent, runs, prevNames, observed>>
    /\ UNCHANGED <<malformed, callerVars>>

(***************************************************************************)
(* The standard of a port: getStandard and setStandard.                    *)
(***************************************************************************)
\* the locals of the acquisition thread and the history of its run
acqVars == <<listResp, coeffList, totalPoints, readPoints, lastPercentage,
             nameIdx, stepIdx, set, c, points, ptIdx, malformed>>

\* usb->Query(":PORT? "+QString::number(port)); index is the port
PortQuery(port) == [cmd |-> ":PORT?", set |-> "", param |-> NoName, index |-> port]
\* usb->Cmd(":PORT "+QString::number(port)+" "+StandardToString(s)); index is
\* the port, set is the name of the standard
PortCmd(port, s) ==
    [cmd |-> ":PORT", set |-> StandardToString(s), param |-> NoName, index |-> port]

\* what the device may answer to :PORT?: the five names, and text that is
\* none of them
PortResponses == {"OPEN", "SHORT", "LOAD", "THROUGH", "NONE",
                  "open", "THRU", "OPEN ", "ERROR", ""}

\* CalDevice::getStandard(port); the model keeps one call a session
getStandard ==
    /\ usb.live
    /\ pc # "crashed"
    /\ ~standard.valid
    /\ \E port \in 0..numPorts :
       \E response \in PortResponses :
        /\ sent' = Append(sent, PortQuery(port))
        /\ standard' = [valid |-> TRUE, response |-> response,
                        value |-> StandardFromString(response)]
    /\ UNCHANGED <<numPorts, coeffSets, pc, nextAddr, emitted, runs, prevNames,
                   observed, lookup, acqVars, pc2, modResult, firmware, usb>>

\* CalDevice::setStandard(port, s) with a value of the enumeration; what
\* usb->Cmd returns goes to the caller.  The model keeps one call a run.
setStandard ==
    /\ usb.live
    /\ pc # "crashed"
    /\ \A k \in 1..Len(sent) : sent[k].cmd # ":PORT"
    /\ \E port \in 0..numPorts :
       \E s \in Open..None :
        sent' = Append(sent, PortCmd(port, s))
    /\ UNCHANGED <<numPorts, coeffSets, pc, nextAddr, emitted, runs, prevNames,
                   observed, lookup, acqVars, callerVars>>

(***************************************************************************)
(* updateCoefficientSets while a run is in flight.                         *)
(***************************************************************************)
\* the acquisition thread is started and has not returned
Running == pc \in {"list", "prescan", "dlnum", "dlget", "push", "emitdone"}

\* updateCoefficientSets called while the thread of an earlier call runs:
\* nothing in the function looks for a running thread; it clears the
\* collection and starts one more.  The model follows one such call.
CallWhileRunning ==
    /\ Running
    /\ pc2 = "none"
    /\ coeffSets' = Cleared(coeffSets)
    /\ pc2' = "list"
    /\ runs' = runs + 1
    /\ UNCHANGED <<numPorts, pc, nextAddr, emitted, sent, prevNames, observed,
                   lookup, acqVars, standard, modResult, firmware, usb>>

\* the thread of that call: its listing query, which the device, busy with
\* the first run, answers with NOTREADY; the thread emits
\* updateCoefficientsDone and returns
OverlapQueryList ==
    /\ pc2 = "list"
    /\ pc # "crashed"
    /\ ~startsWithFACTORY(<<"NOTREADY">>)
    /\ sent' = Append(sent, ListQuery)
    /\ emitted' = Append(emitted, Done)
    /\ pc2' = "finished"
    /\ UNCHANGED <<numPorts, coeffSets, pc, nextAddr, runs, prevNames, observed,
                   lookup, acqVars, standard, modResult, firmware, usb>>

(***************************************************************************)
(* hasModifiedCoefficients, and the editing that sets a modified flag.     *)
(***************************************************************************)
\* for(auto c : vec) if(c->modified): a trace of the vector is modified
AnyModified(vec) == \E i \in 1..Len(vec) : vec[i].modified

\* the loops of hasModifiedCoefficients reach a return true
ReachesReturnTrue(sets) ==
    \E n \in 1..Len(sets) :
        \/ AnyModified(sets[n].opens)
        \/ AnyModified(sets[n].shorts)
        \/ AnyModified(sets[n].loads)
        \/ AnyModified(sets[n].throughs)

\* control reaches the closing brace of a function that returns bool with no
\* return statement: the behaviour is undefined.  The caller gets true or
\* false, whatever the return register holds, or the process stops in the
\* trap a compiler puts at the unreachable end.
MissingReturn == {"true", "false", "trap"}

\* the outcomes of CalDevice::hasModifiedCoefficients on a collection
hasModifiedOutcomes(sets) ==
    IF ReachesReturnTrue(sets) THEN {"true"} ELSE MissingReturn

\* a caller asks between runs; the model keeps one call a session
hasModifiedCoefficients ==
    /\ NoRunInFlight
    /\ ~modResult.valid
    /\ \E out \in hasModifiedOutcomes(coeffSets) :
        /\ modResult' = [valid |-> TRUE, returned |-> out,
                         modified |-> ReachesReturnTrue(coeffSets)]
        /\ pc' = IF out = "trap" THEN "crashed" ELSE pc
    /\ UNCHANGED <<numPorts, coeffSets, nextAddr, emitted, sent, runs, prevNames,
                   observed, lookup, acqVars, pc2, standard, firmware, usb>>

\* the trace at position i of the vector kind of a set, marked modified
Marked(s, kind, i) ==
    CASE kind = "opens" -> [s EXCEPT !.opens[i].modified = TRUE]
      [] kind = "shorts" -> [s EXCEPT !.shorts[i].modified = TRUE]
      [] kind = "loads" -> [s EXCEPT !.loads[i].modified = TRUE]
      [] kind = "throughs" -> [s EXCEPT !.throughs[i].modified = TRUE]

TraceCount(s, kind) ==
    CASE kind = "opens" -> Len(s.opens)
      [] kind = "shorts" -> Len(s.shorts)
      [] kind = "loads" -> Len(s.loads)
      [] kind = "throughs" -> Len(s.throughs)

\* editing outside the session sets the modified flag of a trace of the
\* collection of a finished run; the model follows one edit a run
MarkModified ==
    /\ pc = "finished"
    /\ ~ReachesReturnTrue(coeffSets)
    /\ \E n \in 1..Len(coeffSets) :
       \E kind \in {"opens", "shorts", "loads", "throughs"} :
       \E i \in 1..TraceCount(coeffSets[n], kind) :
        coeffSets' = [coeffSets EXCEPT ![n] = Marked(coeffSets[n], kind, i)]
    /\ UNCHANGED <<numPorts, pc, nextAddr, emitted, sent, runs, prevNames,
                   observed, lookup, acqVars, callerVars>>

(***************************************************************************)
(* Construction and destruction of the session object.                     *)
(***************************************************************************)
\* CalDevice::CalDevice(serial): usb(new USBDevice(serial)), then the body.
\* The throw leaves no object: the destructor does not run for it.
CalDevice(maxPorts) ==
    /\ pc = "new"
    /\ \E id \in IdnResponses :
       \E fw \in FirmwareResponses :
       \E ports \in PortsResponses(maxPorts) :
        IF ~startsWith(id, ProductTag)
        THEN /\ usb' = [live |-> FALSE, deletes |-> usb.deletes + 1, idn |-> id,
                        ports |-> usb.ports]
             /\ sent' = <<IdnQuery>>
             /\ pc' = "failed"
             /\ UNCHANGED <<firmware, numPorts>>
        ELSE /\ usb' = [live |-> TRUE, deletes |-> usb.deletes, idn |-> id,
                        ports |-> ports]
             /\ sent' = <<IdnQuery, FirmwareQuery, PortsQuery>>
             /\ firmware' = fw
             /\ numPorts' = (IF ports.ok THEN ports.val ELSE 0)
             /\ pc' = "idle"
    /\ UNCHANGED <<coeffSets, nextAddr, emitted, runs, prevNames, observed, lookup,
                   acqVars, pc2, standard, modResult>>

\* CalDevice::~CalDevice: delete usb; called while no thread of the session
\* runs
DestroyCalDevice ==
    /\ NoRunInFlight
    /\ usb' = [usb EXCEPT !.live = FALSE, !.deletes = @ + 1]
    /\ pc' = "destroyed"
    /\ UNCHANGED <<numPorts, coeffSets, nextAddr, emitted, sent, runs, prevNames,
                   observed, lookup, acqVars, pc2, standard, modResult, firmware>>

\* before the constructor: no transport object, members not yet set
InitLife ==
    /\ numPorts = 0
    /\ coeffSets = <<>>
    /\ pc = "new"
    /\ listResp = <<>>
    /\ coeffList = <<>>
    /\ totalPoints = 0
    /\ readPoints = 0
    /\ lastPercentage = 0
    /\ nameIdx = 0
    /\ stepIdx = 0
    /\ set = NoSet
    /\ c = NoCoefficient
    /\ points = 0
    /\ ptIdx = 0
    /\ nextAddr = FirstAddr
    /\ emitted = <<>>
    /\ sent = <<>>
    /\ runs = 0
    /\ prevNames = <<>>
    /\ observed = NoObservation
    /\ lookup = NoLookup
    /\ malformed = FALSE
    /\ pc2 = "none"
    /\ standard = NoStandard
    /\ modResult = NoResult
    /\ firmware = ""
    /\ usb = [live |-> FALSE, deletes |-> 0, idn |-> <<>>, ports |-> Unparsable]

(***************************************************************************)
(* Spec: one run against a device that reports up to MaxTotal points.      *)
(***************************************************************************)
Thread ==
    \/ QueryList(SingleListResponses)
    \/ PrescanNum(NumResponses, MaxTotal)
    \/ DownloadNum(NumResponses, MaxRead)
    \/ DownloadGet
    \/ PushSet
    \/ EmitDone

Next ==
    \/ Call(1)
    \/ Thread

Spec == Init /\ [][Next]_vars

(***************************************************************************)
(* SessSpec: a session with several runs, one after the other, against a   *)
(* device that holds few points.                                           *)
(***************************************************************************)
NextSess ==
    \/ Call(MaxRuns)
    \/ QueryList(ListResponses)
    \/ PrescanNum(SparseNumResponses, MaxSparse)
    \/ DownloadNum(SparseNumResponses, MaxSparse)
    \/ DownloadGet
    \/ PushSet
    \/ EmitDone

SessSpec == Init /\ [][NextSess]_vars

(***************************************************************************)
(* ReadSpec: the same session with a reader of the collection.             *)
(***************************************************************************)
NextRead ==
    \/ NextSess
    \/ getCoefficientSets

ReadSpec == Init /\ [][NextRead]_vars

(***************************************************************************)
(* AddrSpec: one run on a device with up to MaxAddrPorts ports that holds  *)
(* one point for every parameter, and lookups of throughs in the sets the  *)
(* run acquired.                                                           *)
(***************************************************************************)
\* the number of :COEFF:NUM? queries of a pass over the sets of coeffList
CountQueries == Len(coeffList) * Len(PrescanParams(1, numPorts))

NextAddr ==
    \/ Call(1)
    \/ QueryList(ListResponses)
    \/ PrescanNum(OnePointResponses, CountQueries)
    \/ DownloadNum(OnePointResponses, CountQueries)
    \/ DownloadGet
    \/ PushSet
    \/ EmitDone
    \/ LookupThrough

AddrSpec == InitAddr /\ [][NextAddr]_vars

(***************************************************************************)
(* LifeSpec: the session object from before its construction to after its *)
(* destruction, with one run in between.                                   *)
(***************************************************************************)
NextLife ==
    \/ CalDevice(MaxPorts)
    \/ Call(1)
    \/ QueryList(SingleListResponses)
    \/ PrescanNum(SparseNumResponses, MaxSparse)
    \/ DownloadNum(SparseNumResponses, MaxSparse)
    \/ DownloadGet
    \/ PushSet
    \/ EmitDone
    \/ DestroyCalDevice

LifeSpec == InitLife /\ [][NextLife]_vars

(***************************************************************************)
(* SetSpec: one run on a device with up to MaxSetPorts ports that holds    *)
(* few points, most parameters having none.                                *)
(***************************************************************************)
NextSet ==
    \/ Call(1)
    \/ QueryList(ListResponses)
    \/ PrescanNum(SparseNumResponses, MaxSparse)
    \/ DownloadNum(SparseNumResponses, MaxSparse)
    \/ DownloadGet
    \/ PushSet
    \/ EmitDone

SetSpec == InitSet /\ [][NextSet]_vars

(***************************************************************************)
(* PortSpec: a caller that reads and sets the standard of a port of a      *)
(* session that runs no acquisition.                                       *)
(***************************************************************************)
NextPort ==
    \/ getStandard
    \/ setStandard

PortSpec == Init /\ [][NextPort]_vars

(***************************************************************************)
(* ConcSpec: a caller that calls updateCoefficientSets again while the     *)
(* run is in flight, and reads the standard of a port.                     *)
(***************************************************************************)
NextConc ==
    \/ Call(1)
    \/ CallWhileRunning
    \/ OverlapQueryList
    \/ QueryList(SingleListResponses)
    \/ PrescanNum(SparseNumResponses, MaxSparse)
    \/ DownloadNum(SparseNumResponses, MaxSparse)
    \/ DownloadGet
    \/ PushSet
    \/ EmitDone
    \/ getStandard

ConcSpec == Init /\ [][NextConc]_vars

(***************************************************************************)
(* ModSpec: one run, an edit of a trace, and a caller that asks whether a  *)
(* trace is modified.                                                      *)
(***************************************************************************)
InitMod == \E ports \in 0..MaxModPorts : Constructed(ports)

NextMod ==
    \/ Call(1)
    \/ QueryList(ListResponses)
    \/ PrescanNum(SparseNumResponses, MaxSparse)
    \/ DownloadNum(SparseNumResponses, MaxSparse)
    \/ DownloadGet
    \/ PushSet
    \/ EmitDone
    \/ MarkModified
    \/ hasModifiedCoefficients

ModSpec == InitMod /\ [][NextMod]_vars

(***************************************************************************)
(* Properties of the through addressing (AddrSpec).                        *)
(***************************************************************************)
\* the pairs (a, b) with 1 <= a < b <= P
ValidPairs(P) == {pair \in (1..P) \X (1..P) : pair[1] < pair[2]}

\* the :COEFF:GET? queries the run sent for a parameter of a set
GetQueries(name, param) ==
    SelectSeq(sent, LAMBDA q : q.cmd = ":COEFF:GET?" /\ q.set = name /\ q.param = param)

\* the index getThrough computes for a pair it does not reject
IndexOf(pair, P) == ThroughIndex(pair[2] - pair[1] - 1, pair[1], P)

\* sum_{k=1}^{a-1} (P-k) + (b-a-1)
RECURSIVE SumBelow(_, _)
SumBelow(a, P) == IF a <= 1 THEN 0 ELSE (P - (a - 1)) + SumBelow(a - 1, P)
FormulaIndex(pair, P) == SumBelow(pair[1], P) + (pair[2] - pair[1] - 1)

\* C1: after a run, in every acquired set, getThrough(a, b) of a valid pair
\* returns the trace the download pass built for the parameter P<a><b>_THROUGH
\* of that set, holding one point for each point fetch of that parameter, and
\* distinct pairs return distinct traces.
C1_WriteThenRead ==
    /\ (pc = "finished" /\ ~lookup.valid) =>
        \A n \in 1..Len(coeffSets) :
            LET s == coeffSets[n]
                pairs == ValidPairs(numPorts)
                got(pair) == getThrough(s, pair[1], pair[2])
            IN  /\ \A pair \in pairs :
                    /\ Cardinality(got(pair)) = 1
                    /\ \A out \in got(pair) :
                        /\ out.found /\ ~out.oob
                        /\ out.coef.from = [set |-> s.name,
                                            param |-> ThroughName(pair[1], pair[2])]
                        /\ Len(out.coef.datapoints)
                             = Len(GetQueries(s.name, ThroughName(pair[1], pair[2])))
                /\ Cardinality(UNION {{out.coef.addr : out \in got(pair)} : pair \in pairs})
                     = Cardinality(pairs)
    /\ (lookup.valid /\ <<lookup.port1, lookup.port2>> \in ValidPairs(numPorts)) =>
        /\ lookup.found
        /\ lookup.coef.from = [set |-> coeffSets[lookup.set].name,
                               param |-> ThroughName(lookup.port1, lookup.port2)]

\* C1 witness: on the largest device, the last pair of the second set was looked
\* up and its trace holds a fetched point
C1_Witness ==
    /\ lookup.valid
    /\ numPorts = MaxAddrPorts
    /\ lookup.set = 2
    /\ lookup.port1 = numPorts - 1
    /\ lookup.port2 = numPorts
    /\ Len(lookup.coef.datapoints) = 1

\* C2: for the port count P of the session, the index getThrough computes for
\* the valid pairs equals sum_{k=1}^{a-1}(P-k) + (b-a-1), is injective, has
\* image 0..P(P-1)/2-1, and grows with the smaller port first and the larger
\* port second (stated of the function where the session starts, and of the
\* index of every lookup made).
C2_IndexBijection ==
    LET P == numPorts
        pairs == ValidPairs(P)
    IN  /\ pc = "idle" =>
            /\ \A pair \in pairs :
                /\ ~RejectsPair(pair[1], pair[2], P)
                /\ IndexOf(pair, P) = FormulaIndex(pair, P)
            /\ Cardinality({IndexOf(pair, P) : pair \in pairs}) = Cardinality(pairs)
            /\ {IndexOf(pair, P) : pair \in pairs} = 0..((P * (P - 1)) \div 2 - 1)
            /\ \A p, q \in pairs :
                (p[1] < q[1] \/ (p[1] = q[1] /\ p[2] < q[2]))
                    => IndexOf(p, P) < IndexOf(q, P)
        /\ (lookup.valid /\ <<lookup.port1, lookup.port2>> \in pairs) =>
            /\ lookup.index = FormulaIndex(<<lookup.port1, lookup.port2>>, P)
            /\ lookup.index \in 0..((P * (P - 1)) \div 2 - 1)

\* C2 witness: the last pair of the largest device was looked up and got the
\* last index
C2_Witness ==
    /\ lookup.valid
    /\ numPorts = MaxAddrPorts
    /\ lookup.port1 = numPorts - 1
    /\ lookup.port2 = numPorts
    /\ lookup.index = (numPorts * (numPorts - 1)) \div 2 - 1

\* port1 >= port2, or a port below 1, or a port above P
InvalidPair(port1, port2, P) ==
    port1 >= port2 \/ port1 < 1 \/ port2 < 1 \/ port1 > P \/ port2 > P

\* C3: getThrough of a pair that is not valid returns no trace and reads no
\* element outside the throughs vector.
C3_InvalidPairAbsent ==
    (lookup.valid /\ InvalidPair(lookup.port1, lookup.port2, numPorts)) =>
        (~lookup.found /\ ~lookup.oob)

\* C3: the two lookups the specification names, (2,1) and (1,1), on a 2 port
\* set do return absence
C3_NamedLookups ==
    (lookup.valid /\ numPorts = 2
        /\ <<lookup.port1, lookup.port2>> \in {<<2, 1>>, <<1, 1>>}) =>
        (~lookup.found /\ ~lookup.oob)

(***************************************************************************)
(* Properties of the signals of a run (Spec).                              *)
(***************************************************************************)
\* the progress signals among the signals e, and the completion signals
ProgressOf(e) == SelectSeq(e, LAMBDA x : x.sig = "updateCoefficientsPercent")
CompletionsOf(e) == SelectSeq(e, LAMBDA x : x.sig = "updateCoefficientsDone")

\* the thread returned after a listing that starts with FACTORY
Successful == pc = "finished" /\ listResp # <<>> /\ startsWithFACTORY(listResp)
\* the thread returned because the listing does not start with FACTORY
Aborted == pc = "finished" /\ listResp # <<>> /\ ~startsWithFACTORY(listResp)

\* a run that counted 10 points and read 10 points has returned
TenOfTen == Successful /\ totalPoints = 10 /\ readPoints = 10

\* C4 as claimed: such a run emits 0, 10, ..., 100, then completion.
C4_ZeroToHundred ==
    TenOfTen => emitted = [k \in 1..11 |-> Percent((k - 1) * 10)] \o <<Done>>

\* C4 amended: a run that counted 10 points and read 10 points emits exactly
\* the percentages 10, 20, ..., 100 in ascending order, each once, and then the
\* completion signal; 0 is never emitted.
C4_TenToHundred ==
    TenOfTen => emitted = [k \in 1..10 |-> Percent(k * 10)] \o <<Done>>

\* C4 witness: a finished run with totalPoints = 10 and 10 points read
C4_Witness == TenOfTen /\ Len(emitted) > 1

\* C5: within a run the emitted percentages are strictly increasing, so no
\* value is emitted twice.
C5_StrictlyIncreasing ==
    LET p == ProgressOf(emitted)
    IN  \A i, j \in 1..Len(p) : i < j => p[i].val < p[j].val

\* C5, the part that holds: while the pre-scan total is not zero the emitted
\* percentages are strictly increasing.
C5_IncreasingWhenTotalNonzero == totalPoints # 0 => C5_StrictlyIncreasing

\* C6: a started run emits completion at most once and nothing after it; a run
\* that can take no further step has emitted it; and a successful run with
\* totalPoints > 0 has 100 as its last progress signal.
C6_RunCompletes ==
    /\ Len(CompletionsOf(emitted)) <= 1
    /\ \A i \in 1..Len(emitted) : emitted[i] = Done => i = Len(emitted)
    /\ (pc # "idle" /\ ~ENABLED Thread) => Len(CompletionsOf(emitted)) = 1
    /\ (Successful /\ totalPoints > 0) =>
        /\ ProgressOf(emitted) # <<>>
        /\ ProgressOf(emitted)[Len(ProgressOf(emitted))] = Percent(100)

\* the thread is in or past its download pass
InDownload == pc \in {"dlnum", "dlget", "push", "emitdone", "finished", "crashed"}

\* C9: when the pre-scan total is zero the run never computes
\* readPoints*100/totalPoints (it does so once for each point read), emits no
\* progress signal and ends with the completion signal.
C9_ZeroTotal ==
    (InDownload /\ totalPoints = 0) =>
        /\ readPoints = 0
        /\ ProgressOf(emitted) = <<>>
        /\ pc # "crashed"
        /\ ~ENABLED Thread => emitted = <<Done>>

(***************************************************************************)
(* Properties of the collection across runs (SessSpec, ReadSpec).          *)
(***************************************************************************)
\* the thread returned and the listing it got was NOTREADY, the listing of the
\* device that does not start with FACTORY
GotNotReady == pc = "finished" /\ listResp = <<"NOTREADY">>

\* C7: a run whose listing does not start with FACTORY sends the listing query
\* and nothing else (no :COEFF:NUM?, no :COEFF:GET?), emits the completion
\* signal and no progress signal, and leaves the collection empty.
C7_AbortIsClean ==
    GotNotReady =>
        /\ sent = <<ListQuery>>
        /\ emitted = <<Done>>
        /\ coeffSets = <<>>

\* C7 witness: a run aborted in a session that held a set before the call
C7_Witness == GotNotReady /\ prevNames # <<>> /\ Len(sent) = 1

\* C8 as claimed: after an aborted run the collection is what it was before
\* the call.
C8_PriorSetsKept == Aborted => Names(coeffSets) = prevNames

\* C8 amended: when the session held sets before the call, the collection is
\* empty from the call on, before the listing is queried and after the abort:
\* the prior sets are discarded, not kept.
C8_PriorSetsDiscarded ==
    (prevNames # <<>> /\ (pc = "list" \/ Aborted)) =>
        (coeffSets = <<>> /\ Names(coeffSets) # prevNames)

\* C8 witness: the second run aborted in a session that held two sets
C8_Witness == Aborted /\ runs = 2 /\ Len(prevNames) = 2

\* C10: what a reader got from getCoefficientSets while the run was in flight,
\* even from a copy that overlapped no write of the thread, is the collection
\* from before the run (it holds the sets of the names held then) or the
\* collection the run ends with.
C10_NoPartialRead ==
    (observed.valid /\ observed.inFlight /\ ~observed.torn /\ pc = "finished") =>
        \/ observed.sets = coeffSets
        \/ Names(observed.sets) = prevNames

(***************************************************************************)
(* Properties of the sets a run builds (SetSpec).                          *)
(***************************************************************************)
\* the trace at position i of a vector was built by the createCoefficient call
\* for the parameter kind of port i of the set
BuiltFor(vec, kind, name) ==
    \A i \in 1..Len(vec) :
        vec[i].from = [set |-> name, param |-> ParamName(kind, i)]

\* C12: every set of the collection has ports = P, opens, shorts and loads of
\* length P whose element i-1 was built from P<i>_OPEN, P<i>_SHORT, P<i>_LOAD
\* of the set, and throughs of length P(P-1)/2, whatever counts the device
\* reported.
C12_SetShape ==
    \A n \in 1..Len(coeffSets) :
        LET s == coeffSets[n]
        IN  /\ s.ports = numPorts
            /\ Len(s.opens) = numPorts
            /\ Len(s.shorts) = numPorts
            /\ Len(s.loads) = numPorts
            /\ BuiltFor(s.opens, "OPEN", s.name)
            /\ BuiltFor(s.shorts, "SHORT", s.name)
            /\ BuiltFor(s.loads, "LOAD", s.name)
            /\ Len(s.throughs) = (numPorts * (numPorts - 1)) \div 2

\* the number of points of the traces of a vector
RECURSIVE PointsOf(_)
PointsOf(vec) ==
    IF vec = <<>> THEN 0 ELSE Len(Head(vec).datapoints) + PointsOf(Tail(vec))

\* C12 witness: on the largest device a set was appended whose only point is a
\* point of a through, all other traces being empty
C12_Witness ==
    /\ numPorts = MaxSetPorts
    /\ Len(coeffSets) = 2
    /\ PointsOf(coeffSets[2].throughs) = 1
    /\ PointsOf(coeffSets[2].opens) = 0

(***************************************************************************)
(* Properties of the points a run stores (SetSpec).                        *)
(***************************************************************************)
\* records of the wire with 0 to 5 complex values, a record with a value that
\* has no partner, and a record with fields that are no numbers
WireRecords ==
    {<<Num(1)>>,
     <<Num(1), Num(2), Num(3)>>,
     <<Num(1), Num(2), Num(3), Num(4)>>,
     <<Num(1), Num(2), Num(3), Num(4), Num(5)>>,
     <<Num(1), Num(2), Num(3), Num(4), Num(5), Num(6), Num(7)>>,
     <<Num(1), Num(11), Num(12), Num(21), Num(22), Num(31), Num(32), Num(41), Num(42)>>,
     <<Unparsable, Num(11), Unparsable, Num(21), Num(22), Num(31), Num(32), Num(41), Num(42)>>,
     <<Num(1), Num(11), Num(12), Num(21), Num(22), Num(31), Num(32), Num(41), Num(42),
       Num(51), Num(52)>>}

\* the complex values of a record in the order received
WireOrder(values) ==
    [j \in 1..((Len(values) - 1) \div 2) |->
        [re |-> toInt(values[2 * j]), im |-> toInt(values[2 * j + 1])]]

\* the order the claim gives: (v0, v2, v1, v3) for 4 values, else as received
ClaimedOrder(S) ==
    IF Len(S) = 4 THEN [j \in 1..4 |-> S[CASE j = 2 -> 3 [] j = 3 -> 2 [] OTHER -> j]]
    ELSE S

\* the points stored in the traces of a vector
StoredPoints(vec) == UNION {{vec[i].datapoints[k] : k \in 1..Len(vec[i].datapoints)} : i \in 1..Len(vec)}

\* C13: the point built from a record of 4 complex values has positions 1 and
\* 2 swapped, the point built from any other record has the values in the
\* order received; and so has every point stored in a set: a point of a
\* through is (S11, S12, S21, S22) of the wire's (S11, S21, S12, S22), a point
\* of a reflection standard is the one value of the wire.
C13_WireOrder ==
    /\ \A values \in WireRecords :
            ParsePoint(values).S = ClaimedOrder(WireOrder(values))
    /\ \A n \in 1..Len(coeffSets) :
        /\ \A p \in StoredPoints(coeffSets[n].throughs) :
                p.S = <<[re |-> 11, im |-> 12], [re |-> 31, im |-> 32],
                        [re |-> 21, im |-> 22], [re |-> 41, im |-> 42]>>
        /\ \A p \in StoredPoints(coeffSets[n].opens \o coeffSets[n].shorts
                                     \o coeffSets[n].loads) :
                p.S = <<[re |-> 2, im |-> 3]>>

\* C13 witness: a set of the collection holds a point of a through, one of 4
\* complex values
C13_Witness ==
    \E n \in 1..Len(coeffSets) :
        \E p \in StoredPoints(coeffSets[n].throughs) : Len(p.S) = 4

\* C13 witness of the other case is part of the same runs: a set holds a point
\* of a reflection standard, one complex value
C13_ReflectStored ==
    \E n \in 1..Len(coeffSets) :
        \E p \in StoredPoints(coeffSets[n].opens) : Len(p.S) = 1

(***************************************************************************)
(* Range of the progress values (Spec).                                    *)
(***************************************************************************)
\* C17: every percentage a run emits lies in 0..100, and a run emits at most
\* 101 progress signals, whatever the device answers in the two passes.
C17_PercentInRange ==
    LET p == ProgressOf(emitted)
    IN  /\ \A i \in 1..Len(p) : p[i].val \in 0..100
        /\ Len(p) <= 101

\* the run of C17's failing input: a pre-scan total of 1 and 5 points read in
\* the download pass, the last percentage emitted being 500
C17_FiveOfOne ==
    ~(Successful /\ totalPoints = 1 /\ readPoints = 5
        /\ ProgressOf(emitted) = [k \in 1..5 |-> Percent(k * 100)])

(***************************************************************************)
(* Order of the queries of a run (SetSpec).                                *)
(***************************************************************************)
\* the parameters of port i of a P port device in the order of the protocol:
\* open, short, load, then the throughs to the larger ports, ascending
PortParams(i, P) ==
    <<[kind |-> "OPEN", digits |-> <<i>>], [kind |-> "SHORT", digits |-> <<i>>],
      [kind |-> "LOAD", digits |-> <<i>>]>>
    \o [k \in 1..(P - i) |-> [kind |-> "THROUGH", digits |-> <<i, i + k>>]]

RECURSIVE ParamsUpTo(_, _)
ParamsUpTo(i, P) == IF i = 0 THEN <<>> ELSE ParamsUpTo(i - 1, P) \o PortParams(i, P)

\* one :COEFF:NUM? query for each set of names and each parameter, set by set
RECURSIVE CountPass(_, _)
CountPass(names, P) ==
    IF names = <<>> THEN <<>>
    ELSE [k \in 1..Len(ParamsUpTo(P, P)) |->
            [cmd |-> ":COEFF:NUM?", set |-> Head(names), param |-> ParamsUpTo(P, P)[k],
             index |-> 0]]
         \o CountPass(Tail(names), P)

IsPrefix(a, b) == Len(a) <= Len(b) /\ a = SubSeq(b, 1, Len(a))

\* the queries after the listing query and the pre-scan
DownloadQueries ==
    SubSeq(sent, 2 + Len(coeffList) * Len(ParamsUpTo(numPorts, numPorts)), Len(sent))

CountsOf(q) == SelectSeq(q, LAMBDA x : x.cmd = ":COEFF:NUM?")

\* the number of point fetches at the end of q
RECURSIVE TrailingGets(_)
TrailingGets(q) ==
    IF q = <<>> \/ q[Len(q)].cmd # ":COEFF:GET?" THEN 0
    ELSE 1 + TrailingGets(SubSeq(q, 1, Len(q) - 1))

\* C18: the listing query is the first query and the only one of its kind;
\* the pre-scan count queries, one for each set and parameter, come next and
\* before any point fetch; the download pass repeats the count queries in the
\* same order, each followed at once by the point fetches of its parameter with
\* indices 0, 1, ... up to the count that query returned (points).
C18_QueryOrder ==
    LET pre == CountPass(coeffList, numPorts)
        dl == DownloadQueries
    IN  /\ sent # <<>> =>
            /\ sent[1] = ListQuery
            /\ \A k \in 2..Len(sent) : sent[k].cmd # ":COEFF:LIST?"
        /\ pc \in {"list", "prescan"} => IsPrefix(SubSeq(sent, 2, Len(sent)), pre)
        /\ (InDownload /\ listResp # <<>> /\ startsWithFACTORY(listResp)) =>
            /\ IsPrefix(pre, SubSeq(sent, 2, Len(sent)))
            /\ IsPrefix(CountsOf(dl), pre)
            /\ Successful => CountsOf(dl) = pre
            /\ \A k \in 1..Len(dl) :
                dl[k].cmd = ":COEFF:GET?" =>
                    /\ k > 1
                    /\ dl[k].set = dl[k - 1].set
                    /\ dl[k].param = dl[k - 1].param
                    /\ dl[k].index = (IF dl[k - 1].cmd = ":COEFF:GET?"
                                       THEN dl[k - 1].index + 1 ELSE 0)
            /\ (pc = "dlget" /\ dl # <<>>) =>
                    (TrailingGets(dl) = ptIdx /\ ptIdx < points)
            /\ (pc \in {"dlnum", "push", "emitdone", "finished"} /\ dl # <<>>) =>
                    TrailingGets(dl) = (IF points > 0 THEN points ELSE 0)

\* C18 witness: a successful run on the largest device acquired two sets and
\* fetched one point, a point of the last through of the second set
C18_Witness ==
    /\ Successful
    /\ numPorts = MaxSetPorts
    /\ Len(coeffSets) = 2
    /\ totalPoints = 1
    /\ \E k \in 1..Len(sent) :
        sent[k] = [cmd |-> ":COEFF:GET?", set |-> "USER",
                   param |-> [kind |-> "THROUGH",
                              digits |-> <<numPorts - 1, numPorts>>],
                   index |-> 0]

(***************************************************************************)
(* The collection after sequential runs (SessSpec).                        *)
(***************************************************************************)
\* the traces of the sets of a collection
TracesOf(sets) ==
    UNION {{sets[n].opens[i] : i \in 1..Len(sets[n].opens)}
           \cup {sets[n].shorts[i] : i \in 1..Len(sets[n].shorts)}
           \cup {sets[n].loads[i] : i \in 1..Len(sets[n].loads)}
           \cup {sets[n].throughs[i] : i \in 1..Len(sets[n].throughs)}
           : n \in 1..Len(sets)}

\* every trace of the collection is an object of its own, built for the set
\* that holds it, and the traces are the objects allocated last: none is of an
\* earlier run
BuiltByLastRun(sets) ==
    LET addrs == {t.addr : t \in TracesOf(sets)}
        count == Len(sets) * Len(PrescanParams(1, numPorts))
    IN  /\ addrs = (nextAddr - count)..(nextAddr - 1)
        /\ \A n \in 1..Len(sets) :
            \A t \in TracesOf(<<sets[n]>>) : t.from.set = sets[n].name

\* C19 as claimed: once a run has emitted completion the collection holds one
\* set for each name of the listing response of that run, in listing order,
\* and nothing of an earlier run.
C19_OneSetPerListedName ==
    pc = "finished" =>
        /\ Names(coeffSets) = listResp
        /\ BuiltByLastRun(coeffSets)

\* C19 amended: that holds when the listing of the last run starts with
\* FACTORY; after a run whose listing does not, the collection is empty.  In
\* both cases it holds nothing of an earlier run.
C19_RebuiltOrEmpty ==
    pc = "finished" =>
        IF startsWithFACTORY(listResp)
        THEN /\ Names(coeffSets) = listResp
             /\ BuiltByLastRun(coeffSets)
        ELSE coeffSets = <<>>

\* C19 witness: a session that held two sets ran again, the device listed one
\* set, and the run read a point
C19_Witness ==
    /\ pc = "finished"
    /\ runs = 2
    /\ prevNames = <<"FACTORY", "USER">>
    /\ listResp = <<"FACTORY">>
    /\ numPorts = MaxPorts
    /\ readPoints = 1

(***************************************************************************)
(* Count responses that are no numbers (Spec).                             *)
(***************************************************************************)
\* C20: a run that got a :COEFF:NUM? response that is no number goes on and
\* ends with the completion signal: it never stops without it.
C20_MalformedRunCompletes ==
    malformed =>
        /\ pc # "crashed"
        /\ ~ENABLED Thread =>
                (emitted # <<>> /\ emitted[Len(emitted)] = Done)

\* C20, the part that holds: the step that gets the first such response of a
\* run adds nothing to totalPoints in the pre-scan, and in the download pass
\* sends no point fetch and stores a trace without points in the slot.
C20_TreatedAsZero ==
    [][(malformed' /\ ~malformed) =>
        /\ pc = "prescan" =>
                (totalPoints' = totalPoints /\ pc' \in {"prescan", "dlnum"})
        /\ pc = "dlnum" =>
                /\ points' = 0
                /\ pc' \in {"dlnum", "push"}
                /\ LET step == DownloadSteps(1, numPorts)[stepIdx]
                   IN  set' = PushCoefficient(set, step.dest,
                                              NewCoefficient(nextAddr, set.name, step.param))]_vars

\* the run of C20's failing input: every pre-scan count is no number, the
\* download pass reports a point, and the run stopped in the division
C20_GarbledPrescan ==
    ~(malformed /\ pc = "crashed" /\ totalPoints = 0 /\ readPoints = 1
        /\ emitted = <<>>)

(***************************************************************************)
(* The Standard codec (PortSpec).                                          *)
(***************************************************************************)
\* the five canonical names
CanonicalNames == {"OPEN", "SHORT", "LOAD", "THROUGH", "NONE"}

\* C16: decoding the encoding of each of the five values gives the value
\* back; decoding a string that is none of the five canonical names gives
\* None; what getStandard returned is the decoding of the response it got; and
\* the name setStandard sent is canonical.
C16_CodecRoundTrip ==
    /\ \A s \in {Open, Short, Load, Through, None} :
            StandardFromString(StandardToString(s)) = s
    /\ \A str \in PortResponses \ CanonicalNames : StandardFromString(str) = None
    /\ standard.valid =>
            IF standard.response \in CanonicalNames
            THEN StandardToString(standard.value) = standard.response
            ELSE standard.value = None
    /\ \A k \in 1..Len(sent) :
            sent[k].cmd = ":PORT" =>
                /\ sent[k].set \in CanonicalNames
                /\ StandardToString(StandardFromString(sent[k].set)) = sent[k].set

\* C16 witness: getStandard got THROUGH and returned Through, and setStandard
\* was called in the same session
C16_Witness ==
    /\ standard.valid
    /\ standard.response = "THROUGH"
    /\ standard.value = Through
    /\ \E k \in 1..Len(sent) : sent[k].cmd = ":PORT"

\* C16 witness of the other case: getStandard got text that is no name and
\* returned None
C16_UnknownDecoded ==
    /\ standard.valid
    /\ standard.response = "open"
    /\ standard.value = None

(***************************************************************************)
(* One run and one request at a time (ConcSpec).                           *)
(***************************************************************************)
\* C11: at most one acquisition thread is active at a time, and the queries
\* of a run are not interleaved with those of another run: the listing query,
\* the first query of a run, is never sent after a query of a run whose
\* thread has not returned.
C11_SingleRun ==
    /\ ~(Running /\ pc2 = "list")
    /\ Running =>
            \A k \in 2..Len(sent) : sent[k].cmd # ":COEFF:LIST?"

\* the run of C11's failing input: a second call during the pre-scan of the
\* first run, whose listing query went out between two count queries of the
\* first run
C11_Interleaved ==
    ~(\E k \in 2..(Len(sent) - 1) :
        /\ sent[k - 1].cmd = ":COEFF:NUM?"
        /\ sent[k].cmd = ":COEFF:LIST?"
        /\ sent[k + 1].cmd = ":COEFF:NUM?")

(***************************************************************************)
(* The answer of hasModifiedCoefficients (ModSpec).                        *)
(***************************************************************************)
\* C14: hasModifiedCoefficients returns true exactly when a trace of a set of
\* the collection is modified; it returns false on the empty collection and
\* when no trace is modified.
C14_TrueIffModified ==
    modResult.valid =>
        modResult.returned = (IF modResult.modified THEN "true" ELSE "false")

\* C14, the part that holds: with a modified trace of any kind in the
\* collection the call returns true.
C14_TrueWhenModified ==
    (modResult.valid /\ modResult.modified) => modResult.returned = "true"

\* the call of C14's failing input: asked before any run, on the empty
\* collection, the call returned true
C14_TrueOnEmpty ==
    ~(modResult.valid /\ runs = 0 /\ coeffSets = <<>> /\ modResult.returned = "true")

\* a call with a modified through in the collection
C14_ThroughModified ==
    ~(modResult.valid /\ modResult.returned = "true"
        /\ \E n \in 1..Len(coeffSets) : AnyModified(coeffSets[n].throughs))

(***************************************************************************)
(* Construction of the session (LifeSpec).                                 *)
(***************************************************************************)
\* the identification begins with the characters of LibreCAL_
HasProductTag(idn) ==
    \A k \in 1..Len(ProductTag) : k <= Len(idn) /\ idn[k] = ProductTag[k]

\* C15: construction fails exactly when the answer to *IDN? does not begin
\* with LibreCAL_; the failed construction has sent *IDN? and nothing else
\* and has released the transport once; a construction that succeeds has
\* sent *IDN?, :FIRMWARE? and :PORTS? in that order, and a :PORTS? answer
\* that is no integer gives a port count of 0; the transport is never
\* released twice.
C15_Construction ==
    /\ pc # "new" => (pc = "failed" <=> ~HasProductTag(usb.idn))
    /\ pc = "failed" =>
        /\ sent = <<IdnQuery>>
        /\ ~usb.live
        /\ usb.deletes = 1
    /\ (pc = "idle" /\ runs = 0) => sent = <<IdnQuery, FirmwareQuery, PortsQuery>>
    /\ pc \notin {"new", "failed"} =>
        numPorts = (IF usb.ports.ok THEN usb.ports.val ELSE 0)
    /\ usb.deletes <= 1
    /\ usb.live => usb.deletes = 0

\* a construction that failed on LibreCAL-1, an identification as long as
\* one of the product
C15_Witness ==
    /\ pc = "failed"
    /\ Len(usb.idn) > Len(ProductTag)
    /\ usb.deletes = 1

\* a session constructed on a :PORTS? answer that is no integer, after a run
\* that listed and built a set for 0 ports
C15_DegradedSession ==
    ~(/\ pc = "finished"
      /\ ~usb.ports.ok
      /\ numPorts = 0
      /\ Len(coeffSets) = 1)

====
